---- MODULE Spec2Model ----
(***************************************************************************)
(* NanoQLClient (src/src/nano-ql-client.ts): a GraphQL client over fetch.  *)
(* The model covers the constructor, execute (payload composition, option  *)
(* merge, dispatch), the abort closure of a handle, and the settling of a  *)
(* dispatched fetch promise by the transport.                              *)
(*                                                                         *)
(* JavaScript values are modelled as follows.                              *)
(*   - a plain object is a function from its own enumerable keys to values *)
(*   - an insertion-ordered object that is serialised is a sequence of     *)
(*     <<key, value>> pairs                                                *)
(*   - an optional argument is [supplied |-> BOOLEAN, value |-> ...]       *)
(*   - a HeadersInit value is [kind, list]: a plain object, a Headers      *)
(*     instance or an array of [name, value] tuples                        *)
(***************************************************************************)
EXTENDS Integers, Sequences, FiniteSets, TLC

VARIABLES
    clientState,   \* "none" | "constructed" | "threw" (constructor outcome)
    ctorArgs,      \* the arguments the constructor was called with
    _url,          \* this._url   (href of the URL object)
    _options,      \* this._options
    calls,         \* one entry per handle returned by execute
    abortCalled,   \* the calls whose handle's abort has been called
    fetchCount,    \* number of calls made to fetch
    lastInput,     \* arguments of the latest execute call
    lastOutcome,   \* "none" | "returned" | "threw" for the latest execute
    lastRequest    \* [url, init] the latest execute passed to fetch
                   \* (NoRequest when it threw before reaching fetch)

vars == <<clientState, ctorArgs, _url, _options, calls, abortCalled,
          fetchCount, lastInput, lastOutcome, lastRequest>>

\* Largest number of execute calls that return a handle in one behaviour.
MaxCalls == 2

-----------------------------------------------------------------------------
(* Generic JavaScript object helpers *)

EmptyObject == [k \in {} |-> ""]

\* { ...a, ...b }: own keys of both, b wins on collision.
SpreadMerge(a, b) ==
    [k \in (DOMAIN a) \cup (DOMAIN b) |-> IF k \in DOMAIN b THEN b[k] ELSE a[k]]

\* The plain object a literal with the members of list denotes (last wins).
ObjectOf(list) ==
    [n \in {list[i][1] : i \in DOMAIN list} |->
        list[CHOOSE i \in DOMAIN list :
                /\ list[i][1] = n
                /\ \A j \in DOMAIN list : list[j][1] = n => j <= i][2]]

-----------------------------------------------------------------------------
(* Constructor inputs *)

UrlTable ==
    [t \in {"https://example.com/graphql", "HTTPS://Example.com"} |->
        IF t = "HTTPS://Example.com" THEN "https://example.com/" ELSE t]

\* Texts that do not parse as an absolute address.
InvalidUrlTexts == {"not a url", "/graphql"}

UrlTexts == (DOMAIN UrlTable) \cup InvalidUrlTexts

UrlArgs ==
    {[kind |-> "string", text |-> t] : t \in UrlTexts}
        \cup {[kind |-> "URL", text |-> "https://example.com/graphql"]}

\* new URL(text): throws a TypeError unless text is an absolute address;
\* the href of the result is the normalised text.
NewURL(text) ==
    IF text \in DOMAIN UrlTable
        THEN [ok |-> TRUE, href |-> UrlTable[text]]
        ELSE [ok |-> FALSE, href |-> ""]

NoHeaders == [kind |-> "undefined", list |-> <<>>]

AuthPair == <<"Authorization", "Bearer token">>

HeadersInits ==
    { [kind |-> "object",  list |-> <<AuthPair>>],
      [kind |-> "object",  list |-> <<AuthPair, <<"Content-Type", "text/plain">> >>],
      [kind |-> "Headers", list |-> <<AuthPair>>],
      [kind |-> "array",   list |-> <<AuthPair>>] }

Undefined == "undefined"

NoOptions == [defined |-> FALSE, bag |-> EmptyObject]

\* A foreign AbortSignal supplied inside the default options.
ForeignSignal == 0

StaleBody == << <<"query", "\"stale\"">> >>

OptionsArgs ==
    {NoOptions}
        \cup {[defined |-> TRUE, bag |-> ("headers" :> h) @@ ("cache" :> "no-store")]
                : h \in HeadersInits}
        \cup {[defined |-> TRUE,
               bag |-> ("method" :> "GET") @@ ("body" :> StaleBody)
                        @@ ("signal" :> ForeignSignal) @@ ("cache" :> "no-store")]}

-----------------------------------------------------------------------------
(* execute inputs *)

\* DocumentNode values; print() maps an AST to its canonical text and
\* throws on a value that is not a valid AST.
PrintTable ==
    [d \in {"HelloDocument"} |-> "{ hello }"]

MalformedDocument == "NotADocumentNode"

Documents == (DOMAIN PrintTable) \cup {MalformedDocument}

print(document) ==
    IF document \in DOMAIN PrintTable
        THEN [ok |-> TRUE, text |-> PrintTable[document]]
        ELSE [ok |-> FALSE, text |-> ""]

VariablesArgs ==
    { [supplied |-> FALSE, value |-> <<>>],
      [supplied |-> TRUE,  value |-> <<>>],
      [supplied |-> TRUE,  value |-> << <<"id", "123">> >>] }

OperationNameArgs ==
    { [supplied |-> FALSE, value |-> ""],
      [supplied |-> TRUE,  value |-> ""],
      [supplied |-> TRUE,  value |-> "GetUser"] }

ExecuteParams ==
    [document : Documents, variables : VariablesArgs, operationName : OperationNameArgs]

NoInput ==
    [document |-> MalformedDocument,
     variables |-> [supplied |-> FALSE, value |-> <<>>],
     operationName |-> [supplied |-> FALSE, value |-> ""]]

-----------------------------------------------------------------------------
(* JSON.stringify *)

Quote(s) == "\"" \o s \o "\""

RECURSIVE JoinMembers(_)
JoinMembers(ms) ==
    IF ms = <<>> THEN ""
    ELSE IF Len(ms) = 1 THEN Quote(ms[1][1]) \o ":" \o Quote(ms[1][2])
    ELSE Quote(ms[1][1]) \o ":" \o Quote(ms[1][2]) \o "," \o JoinMembers(Tail(ms))

\* JSON text of a mapping of string-valued variables.
StringifyMapping(ms) == "{" \o JoinMembers(ms) \o "}"

\* JSON.stringify(body): the members of the JSON object in insertion order,
\* each as <<key, JSON text of the value>>.
JSONStringify(body) ==
    [i \in DOMAIN body |->
        <<body[i][1],
          IF body[i][1] = "variables"
              THEN StringifyMapping(body[i][2])
              ELSE Quote(body[i][2])>>]

\* JSON.parse(text) restricted to what the payload checks need: its keys.
JSONKeys(text) == {text[i][1] : i \in DOMAIN text}

JSONMember(text, key) ==
    text[CHOOSE i \in DOMAIN text : text[i][1] = key][2]

-----------------------------------------------------------------------------
(* execute: payload and request composition *)

\* if (variables): a supplied mapping is an object, hence truthy.
VariablesTruthy(variables) == variables.supplied

\* if (operationName): a supplied string is truthy unless it is empty.
OperationNameTruthy(operationName) ==
    operationName.supplied /\ operationName.value # ""

Body(queryText, variables, operationName) ==
    << <<"query", queryText>> >>
        \o (IF VariablesTruthy(variables)
                THEN << <<"variables", variables.value>> >> ELSE <<>>)
        \o (IF OperationNameTruthy(operationName)
                THEN << <<"operationName", operationName.value>> >> ELSE <<>>)

\* { ...this.options }
SpreadOptions(opts) == IF opts.defined THEN opts.bag ELSE EmptyObject

\* this.options?.headers
OptionsHeaders(opts) ==
    IF opts.defined /\ "headers" \in DOMAIN opts.bag
        THEN opts.bag["headers"] ELSE NoHeaders

\* { ...headers }: the own enumerable properties of the value. A plain
\* object yields its members, a Headers instance has none, an array yields
\* its indices (each tuple coerced to "name,value" when fetch reads it).
SpreadHeaders(h) ==
    CASE h.kind = "object"  -> ObjectOf(h.list)
      [] h.kind = "Headers" -> EmptyObject
      [] h.kind = "array"   ->
            [k \in {ToString(i - 1) : i \in DOMAIN h.list} |->
                LET i == CHOOSE j \in DOMAIN h.list : ToString(j - 1) = k
                IN  h.list[i][1] \o "," \o h.list[i][2]]
      [] OTHER              -> EmptyObject

RequestHeaders(opts) ==
    SpreadMerge(SpreadHeaders(OptionsHeaders(opts)),
                "Content-Type" :> "application/json")

RequestDefaultsLast(opts, bodyText, signal) ==
    SpreadMerge(("method" :> "POST")
                    @@ ("headers" :> RequestHeaders(opts))
                    @@ ("body" :> bodyText)
                    @@ ("signal" :> signal),
                SpreadOptions(opts))

\* The object literal passed to fetch: the defaults first, then the fixed
\* and per-call members, which win on collision.
Request(opts, bodyText, signal) ==
    SpreadMerge(SpreadOptions(opts),
                ("method" :> "POST")
                    @@ ("headers" :> RequestHeaders(opts))
                    @@ ("body" :> bodyText)
                    @@ ("signal" :> signal))

\* get url()  /  get options()
url == _url
options == _options

-----------------------------------------------------------------------------
(* The fetch promise and the AbortSignal of one call *)

AbortErrorValue == "DOMException: The operation was aborted."
TransportErrorValue == "TypeError: Failed to fetch"
ResponseValue == "Response"
TimeoutReason == "Request timed out by client"

\* Arguments abort(reason) is called with.
AbortReasons == {Undefined, TimeoutReason}

\* error.name of a rejection value (a string reason has no name).
ErrorName(v) ==
    CASE v = AbortErrorValue     -> "AbortError"
      [] v = TransportErrorValue -> "TypeError"
      [] OTHER                   -> Undefined

PendingPromise == [state |-> "pending", value |-> Undefined]

\* What the transport settles a pending fetch promise with.
TransportOutcomes ==
    { [state |-> "fulfilled", value |-> ResponseValue],
      [state |-> "rejected",  value |-> TransportErrorValue] }

\* const controller = new AbortController(); response: fetch(..., {signal})
NewCall ==
    [promise |-> PendingPromise,
     signal  |-> [aborted |-> FALSE, reason |-> Undefined]]

FetchAbortStepsAlways(promise, error) ==
    [state |-> "rejected", value |-> error]

\* The abort steps fetch registered on the signal: a promise that has not
\* settled is rejected, a settled promise is left alone.
FetchAbortSteps(promise, error) ==
    IF promise.state = "pending"
        THEN [state |-> "rejected", value |-> error]
        ELSE promise

\* controller.abort(reason) on the controller of one call. Signalling an
\* already aborted signal does nothing. The promise is rejected with the
\* signal's reason, or with an AbortError DOMException on a platform whose
\* fetch predates abort reasons (legacy).
AbortCall(call, reason, legacy) ==
    IF call.signal.aborted THEN call
    ELSE LET r == IF reason = Undefined THEN AbortErrorValue ELSE reason
         IN  [promise |-> FetchAbortSteps(call.promise,
                                          IF legacy THEN AbortErrorValue ELSE r),
              signal  |-> [aborted |-> TRUE, reason |-> r]]

AbortTargetsShared(c, cs) == DOMAIN cs

\* The calls whose controller the abort closure of handle c signals: the
\* controller is a local of the execute call that made the handle.
AbortTargets(c, cs) == {c}

-----------------------------------------------------------------------------
(* Operations *)

NoRequest == [url |-> "", init |-> EmptyObject]

NoCtorArgs == [url |-> [kind |-> "string", text |-> ""], options |-> NoOptions]

Init ==
    /\ clientState = "none"
    /\ ctorArgs = NoCtorArgs
    /\ _url = ""
    /\ _options = NoOptions
    /\ calls = <<>>
    /\ abortCalled = {}
    /\ fetchCount = 0
    /\ lastInput = NoInput
    /\ lastOutcome = "none"
    /\ lastRequest = NoRequest

ConstructUrlUnparsed(u) == [ok |-> TRUE, href |-> u.text]

\* typeof url === 'string' ? new URL(url) : url
ConstructUrl(u) ==
    IF u.kind = "string" THEN NewURL(u.text) ELSE [ok |-> TRUE, href |-> u.text]

\* new NanoQLClient(url, defaultOptions)
Construct(u, o) ==
    /\ clientState = "none"
    /\ ctorArgs' = [url |-> u, options |-> o]
    /\ LET r == ConstructUrl(u)
       IN  IF r.ok
               THEN /\ clientState' = "constructed"
                    /\ _url' = r.href
                    /\ _options' = o
               ELSE /\ clientState' = "threw"
                    /\ UNCHANGED <<_url, _options>>
    /\ UNCHANGED <<calls, abortCalled, fetchCount, lastInput, lastOutcome,
                   lastRequest>>

ExecuteNeverThrows(p) == FALSE

\* execute throws before fetch is reached when print(document) throws.
ExecuteThrows(p) == ~print(p.document).ok

FetchCountAfterExecuteTwice(n) == n + 2

\* fetch is called once in execute.
FetchCountAfterExecute(n) == n + 1

OptionsAfterExecuteAssigned(opts, request) ==
    IF opts.defined THEN [defined |-> TRUE, bag |-> request] ELSE opts

\* The object literal is a fresh object: composing it leaves this._options
\* (and its headers) as they were.
OptionsAfterExecute(opts, request) == opts

\* client.execute({ document, variables, operationName })
Execute(p) ==
    /\ clientState = "constructed"
    /\ lastInput' = p
    /\ IF ExecuteThrows(p)
           THEN /\ lastOutcome' = "threw"
                /\ lastRequest' = NoRequest
                /\ UNCHANGED <<calls, fetchCount, _options>>
           ELSE /\ Len(calls) < MaxCalls
                /\ LET signal   == Len(calls) + 1
                       bodyText == JSONStringify(
                                      Body(print(p.document).text,
                                           p.variables, p.operationName))
                       request  == Request(options, bodyText, signal)
                   IN  /\ lastRequest' = [url |-> url, init |-> request]
                       /\ _options' = OptionsAfterExecute(_options, request)
                /\ fetchCount' = FetchCountAfterExecute(fetchCount)
                /\ calls' = Append(calls, NewCall)
                /\ lastOutcome' = "returned"
    /\ UNCHANGED <<clientState, ctorArgs, _url, abortCalled>>

\* handle.abort(reason) for the handle of call c
Abort(c, reason) ==
    /\ c \in DOMAIN calls
    /\ abortCalled' = abortCalled \cup {c}
    /\ \E legacy \in BOOLEAN :
           calls' = [i \in DOMAIN calls |->
                        IF i \in AbortTargets(c, calls)
                            THEN AbortCall(calls[i], reason, legacy)
                            ELSE calls[i]]
    /\ UNCHANGED <<clientState, ctorArgs, _url, _options, fetchCount,
                   lastInput, lastOutcome, lastRequest>>

\* The transport settles the fetch promise of call c.
Settle(c, outcome) ==
    /\ c \in DOMAIN calls
    /\ calls[c].promise.state = "pending"
    /\ calls' = [calls EXCEPT ![c].promise = outcome]
    /\ UNCHANGED <<clientState, ctorArgs, _url, _options, abortCalled, fetchCount,
                   lastInput, lastOutcome, lastRequest>>

Next ==
    \/ \E u \in UrlArgs, o \in OptionsArgs : Construct(u, o)
    \/ \E p \in ExecuteParams : Execute(p)
    \/ \E c \in 1..MaxCalls, reason \in AbortReasons : Abort(c, reason)
    \/ \E c \in 1..MaxCalls, outcome \in TransportOutcomes : Settle(c, outcome)

Spec == Init /\ [][Next]_vars

-----------------------------------------------------------------------------
(* Properties *)

Returned == lastOutcome = "returned"

SentBody == lastRequest.init["body"]

\* C1: the body sent to the transport has the key query always, the key
\* variables iff a variables mapping was supplied (an empty one included),
\* and the key operationName iff an operation name was supplied (the empty
\* string included).
C1_PayloadKeysFollowSuppliedFields ==
    Returned =>
        /\ "query" \in JSONKeys(SentBody)
        /\ ("variables" \in JSONKeys(SentBody)) <=> lastInput.variables.supplied
        /\ ("operationName" \in JSONKeys(SentBody))
                <=> lastInput.operationName.supplied

\* The header mapping a HeadersInit value stands for, whatever its kind.
DeclaredHeaders(h) == ObjectOf(h.list)

FixedKeys == {"method", "headers", "body", "signal"}

\* C2: a request of a client constructed with default options carries every
\* default option that is not a header (nor one of the fixed members) as
\* given, and its headers are the key-by-key union of the default headers
\* and Content-Type: application/json, the latter winning.
C2_DefaultsCarriedAndHeadersMerged ==
    (Returned /\ ctorArgs.options.defined) =>
        LET bag  == ctorArgs.options.bag
            init == lastRequest.init
            dflt == IF "headers" \in DOMAIN bag
                        THEN DeclaredHeaders(bag["headers"]) ELSE EmptyObject
        IN  /\ \A k \in (DOMAIN bag) \ FixedKeys :
                    k \in DOMAIN init /\ init[k] = bag[k]
            /\ init["headers"] =
                    SpreadMerge(dflt, "Content-Type" :> "application/json")

\* C3: an abort (with or without a reason) on the handle of a call in flight
\* makes the call's promise fail with the cancellation error, the one whose
\* name is AbortError.
C3_AbortInFlightFailsWithAbortError ==
    [][\A c \in DOMAIN calls :
          (calls[c].promise.state = "pending"
                /\ c \notin abortCalled /\ c \in abortCalled')
            => /\ calls'[c].promise.state = "rejected"
               /\ ErrorName(calls'[c].promise.value) = "AbortError"]_vars

\* C4: once the promise of a call has settled, no later step (an abort on
\* its handle in particular, a first or a repeated one) changes its outcome.
C4_SettledOutcomeNeverChanges ==
    [][\A c \in DOMAIN calls :
          calls[c].promise.state # "pending"
            => calls'[c].promise = calls[c].promise]_vars

\* A call that settled successfully and whose handle was aborted afterwards.
C4_Witness ==
    \E c \in DOMAIN calls :
        /\ c \in abortCalled
        /\ calls[c].signal.aborted
        /\ calls[c].promise = [state |-> "fulfilled", value |-> ResponseValue]

\* C5: after any sequence of execute, abort and settle events the number of
\* fetch calls equals the number of handles returned, and the latest one
\* went to the client's endpoint.
C5_OneDispatchPerHandle ==
    /\ fetchCount = Len(calls)
    /\ Returned => lastRequest.url = url

C5_Witness ==
    /\ fetchCount = 2
    /\ lastOutcome = "threw"
    /\ calls[1].promise.state = "rejected" /\ 1 \in abortCalled
    /\ calls[2].promise = [state |-> "rejected", value |-> TransportErrorValue]

\* C6: an execute call whose document fails serialization throws, returns
\* no handle and dispatches nothing.
C6_SerializationFailureDispatchesNothing ==
    [][(/\ lastInput'.document = MalformedDocument
        /\ <<lastInput', lastOutcome'>> # <<lastInput, lastOutcome>>)
          => /\ lastOutcome' = "threw"
             /\ fetchCount' = fetchCount
             /\ calls' = calls
             /\ lastRequest' = NoRequest]_vars

C6_Witness ==
    /\ lastOutcome = "threw"
    /\ lastInput.document = MalformedDocument
    /\ lastInput.variables.supplied
    /\ fetchCount = 1 /\ Len(calls) = 1

\* C7: a call whose own handle was never aborted is never cancelled: its
\* signal is not aborted and its promise is pending or holds an outcome of
\* the transport, whatever was done to the other calls.
C7_AbortCancelsOnlyItsOwnCall ==
    \A c \in DOMAIN calls :
        c \notin abortCalled =>
            /\ ~calls[c].signal.aborted
            /\ calls[c].promise \in {PendingPromise} \cup TransportOutcomes

C7_Witness ==
    \E c, d \in DOMAIN calls :
        /\ c \in abortCalled
        /\ calls[c].promise.state = "rejected"
        /\ calls[c].promise.value # TransportErrorValue
        /\ d \notin abortCalled
        /\ calls[d].promise = [state |-> "fulfilled", value |-> ResponseValue]

\* C8: construction with endpoint text that is no absolute address throws
\* and yields no client, so no execute call and no dispatch follows.
C8_InvalidEndpointYieldsNoClient ==
    (/\ clientState # "none"
     /\ ctorArgs.url.kind = "string"
     /\ ctorArgs.url.text \in InvalidUrlTexts)
        => /\ clientState = "threw"
           /\ calls = <<>>
           /\ fetchCount = 0
           /\ lastOutcome = "none"

C8_Witness ==
    /\ clientState = "threw"
    /\ ctorArgs.url.text = "/graphql"

\* C9: every dispatched request has method POST, the serialized payload of
\* this call as its body and this call's own signal, also when the default
\* options hold method, body or signal.
C9_FixedMembersWin ==
    Returned =>
        /\ lastRequest.init["method"] = "POST"
        /\ lastRequest.init["signal"] = Len(calls)
        /\ lastRequest.init["signal"] # ForeignSignal
        /\ SentBody # StaleBody
        /\ JSONMember(SentBody, "query") = "\"{ hello }\""

C9_Witness ==
    /\ Returned
    /\ ctorArgs.options.defined
    /\ {"method", "body", "signal"} \subseteq DOMAIN ctorArgs.options.bag

\* C10: execute, abort and settling leave the client as constructed: url is
\* the normalized endpoint text and options is the bag given to the
\* constructor (undefined if none was given), unmodified.
C10_ClientUnchanged ==
    clientState = "constructed" =>
        /\ ctorArgs.url.text = "HTTPS://Example.com" => url = "https://example.com/"
        /\ ctorArgs.url.text = "https://example.com/graphql"
                => url = "https://example.com/graphql"
        /\ options = ctorArgs.options

C10_Witness ==
    /\ clientState = "constructed"
    /\ ctorArgs.url.text = "HTTPS://Example.com"
    /\ options.defined /\ "headers" \in DOMAIN options.bag
    /\ Len(calls) = 2
    /\ abortCalled # {}
    /\ \E c \in DOMAIN calls : calls[c].promise.state = "fulfilled"

====
